---- MODULE Spec2Model ----
(***************************************************************************)
(* Model of scripts/preprocess-era5.py: the command line entry point main, *)
(* the loader, the monthly reducer extract_monthly_values, the grid cell   *)
(* builder create_grid_cells, the serializer convert_to_topojson and the   *)
(* sample generator generate_sample_data.                                  *)
(*                                                                         *)
(* Numbers are fixed point.  Temperatures (kelvin, celsius), precipitation *)
(* (metres, millimetres) are integers in units of 10^-5; the rounded       *)
(* fields t1..t12, p1..p12 are integers in tenths.  Latitudes, longitudes  *)
(* and the resolution are integers in thousandths of a degree.             *)
(***************************************************************************)
EXTENDS Integers, Sequences, FiniteSets, TLC

VARIABLES args, disk, pc, exitCode, stdout, stderr, trace,
          temp_ds, precip_ds, temp_var, precip_var,
          temp_monthly, precip_monthly, lat_name, lon_name, lats, lons,
          gdf, topoCalls

vars == <<args, disk, pc, exitCode, stdout, stderr, trace,
          temp_ds, precip_ds, temp_var, precip_var,
          temp_monthly, precip_monthly, lat_name, lon_name, lats, lons,
          gdf, topoCalls>>

----------------------------------------------------------------------------
(* Bounds of the model *)

\* largest number of latitude / longitude points of an input grid
MaxLat == 2
MaxLon == 2
\* largest number of years an input time series spans
MaxYears == 2
\* largest number of missing monthly values drawn into a temperature aggregate
MaxNaN == 1

----------------------------------------------------------------------------
(* Program constants *)

\* number of calendar months, the fields t1..t12 / p1..p12
Months == 12
\* 273.15 K in units of 10^-5
KelvinOffset == 27315000
\* metres to millimetres
MmPerMeter == 1000
\* round(x, 1): 10^-5 units per tenth
TenthUnit == 10000
\* --resolution default 0.25, --quantization default 1000000, sample 1e4
DefaultResolution == 250
DefaultQuantization == 1000000
SampleQuantization == 10000
\* box(lon - 2.5, lat - 2.5, lon + 2.5, lat + 2.5) of the sample generator
SampleHalf == 2500
\* np.arange(-60, 70, 5), np.arange(-180, 180, 5)
SampleLatCount == 26
SampleLonCount == 72
SampleLatFirst == -60000
SampleLonFirst == -180000
SampleStep == 5000

\* the not-a-number of the arrays: a value outside every physical range,
\* tested only through isnan
NaN == -2000000000

isnan(x) == x = NaN

None == "None"

----------------------------------------------------------------------------
(* Arithmetic helpers *)

Abs(a) == IF a >= 0 THEN a ELSE -a

RECURSIVE SumOver(_, _)
\* sum of f[x] for x in S
SumOver(f, S) ==
    IF S = {} THEN 0
    ELSE LET x == CHOOSE y \in S : TRUE IN f[x] + SumOver(f, S \ {x})

\* total / n to the nearest unit (n > 0), the float mean
MeanOf(total, n) == (2 * total + n) \div (2 * n)

\* Python round(x, 1) of a value in 10^-5 units; result in tenths.
\* Round half to even; not-a-number stays not-a-number.
round1(x) ==
    LET q == x \div TenthUnit
        r == x % TenthUnit
    IN  IF isnan(x) THEN NaN
        ELSE IF 2 * r < TenthUnit THEN q
        ELSE IF 2 * r > TenthUnit THEN q + 1
        ELSE IF q % 2 = 0 THEN q ELSE q + 1

\* the sorted sequence of a finite set of integers
RECURSIVE SortedSeq(_)
SortedSeq(S) ==
    IF S = {} THEN << >>
    ELSE LET m == CHOOSE x \in S : \A y \in S : x <= y
         IN  <<m>> \o SortedSeq(S \ {m})

----------------------------------------------------------------------------
(* The input files: a gridded dataset as xarray exposes it *)

\* calendar month the model leaves out of a time axis with a gap, and the
\* calendar month whose samples are missing at a grid point with a hole
GapMonth == 3
HoleMonth == 6

\* the time coordinate of a monthly series of `years` years starting in
\* January, as the sequence of the samples' calendar months; gap = 0 is a
\* complete series, otherwise calendar month `gap` has no sample at all
TimeAxis(years, gap) ==
    LET all == [t \in 1..(Months * years) |-> ((t - 1) % Months) + 1]
        Keep(m) == m # gap
    IN  SelectSeq(all, Keep)

\* the value a file stores for variable var at sample t and grid point (i, j)
StoredValue(ds, var, t, i, j) ==
    IF <<t, i, j>> \in ds.nan THEN NaN
    ELSE IF ds.quantity = "kelvin"
    THEN IF ds.seed = 0 THEN 28815000
         ELSE 26000000 + ds.time[t] * 317311 + t * 40000 + i * 1000003
              + j * 250007 + (IF var = "t2m" THEN 0 ELSE 500000)
    ELSE IF ds.seed = 0 THEN 1000
         ELSE 137 + ds.time[t] * 213 + t * 31 + i * 1021 + j * 57
              + (IF var = "tp" THEN 0 ELSE 50)

\* ds[var_name]: the (time, lat, lon) array of a data variable
Variable(ds, var_name) ==
    [t \in 1..Len(ds.time) |->
        [i \in 1..ds.nlat |->
            [j \in 1..ds.nlon |-> StoredValue(ds, var_name, t, i, j)]]]

\* `name in ds`: data variables and coordinates
Contains(ds, name) ==
    \/ \E n \in DOMAIN ds.data_vars : ds.data_vars[n] = name
    \/ name \in ds.coords

\* ds.coords[name].values of a latitude / longitude axis: n points from 0
\* in steps of 5 degrees
AxisValues(n) == [i \in 1..n |-> (i - 1) * 5000]

----------------------------------------------------------------------------
(* extract_monthly_values *)

\* data.groupby('time.month'): the calendar months that have a sample, sorted
GroupKeys(time) == SortedSeq({time[t] : t \in DOMAIN time})

\* .mean(dim='time') of one group at one grid point; missing samples are
\* skipped, a group with no sample left is missing
GroupMean(time, data, m, i, j) ==
    LET S == {t \in DOMAIN time : time[t] = m /\ ~isnan(data[t][i][j])}
    IN  IF S = {} THEN NaN
        ELSE MeanOf(SumOver([t \in S |-> data[t][i][j]], S), Cardinality(S))

extract_monthly_values(ds, var_name) ==
    LET data == Variable(ds, var_name)
        keys == GroupKeys(ds.time)
    IN  [idx \in 1..Len(keys) |->
            [i \in 1..ds.nlat |->
                [j \in 1..ds.nlon |-> GroupMean(ds.time, data, keys[idx], i, j)]]]

----------------------------------------------------------------------------
(* create_grid_cells *)

\* shapely box(minx, miny, maxx, maxy): the ring of its four corners
box(minx, miny, maxx, maxy) ==
    <<<<maxx, miny>>, <<maxx, maxy>>, <<minx, maxy>>, <<minx, miny>>>>

\* the bounding box [minx, miny, maxx, maxy] of a ring
Bounds(ring) ==
    LET xs == {ring[n][1] : n \in DOMAIN ring}
        ys == {ring[n][2] : n \in DOMAIN ring}
        Least(S) == CHOOSE x \in S : \A y \in S : x <= y
        Most(S) == CHOOSE x \in S : \A y \in S : x >= y
    IN  <<Least(xs), Least(ys), Most(xs), Most(ys)>>

\* fault variant of half_res: the resolution is not halved
half_res_whole(resolution) == resolution

\* resolution / 2
half_res(resolution) == resolution \div 2

\* temp_monthly[:, i, j]
Column(monthly, i, j) == [k \in 1..Len(monthly) |-> monthly[k][i][j]]

\* np.any(np.isnan(column))
AnyNaN(column) == \E k \in DOMAIN column : isnan(column[k])

\* the grid indices in the order of the two nested loops
GridOrder(nlat, nlon) ==
    [n \in 1..(nlat * nlon) |-> <<((n - 1) \div nlon) + 1, ((n - 1) % nlon) + 1>>]

\* temps - 273.15
temps_c(temps) ==
    [k \in DOMAIN temps |->
        IF isnan(temps[k]) THEN NaN ELSE temps[k] - KelvinOffset]

\* precips * 1000
precips_mm(precips) ==
    [k \in DOMAIN precips |->
        IF isnan(precips[k]) THEN NaN ELSE precips[k] * MmPerMeter]

\* fault variant of CellProps: p12 is read from index 10, the index of p11
CellPropsCopyPaste(lat, lon, temps, precips, resolution) ==
    [geometry |-> box(lon - half_res(resolution), lat - half_res(resolution),
                      lon + half_res(resolution), lat + half_res(resolution)),
     lat |-> lat,
     lon |-> lon,
     t |-> LET c == temps_c(temps)
           IN  [k \in 1..Months |-> round1(c[k])],
     p |-> LET mm == precips_mm(precips)
           IN  [k \in 1..Months |->
                   round1(mm[IF k = Months THEN k - 1 ELSE k])]]

\* the properties of one cell, lines 108-150
CellProps(lat, lon, temps, precips, resolution) ==
    [geometry |-> box(lon - half_res(resolution), lat - half_res(resolution),
                      lon + half_res(resolution), lat + half_res(resolution)),
     lat |-> lat,
     lon |-> lon,
     t |-> LET c == temps_c(temps)
           IN  [k \in 1..Months |-> round1(c[k])],
     p |-> LET mm == precips_mm(precips)
           IN  [k \in 1..Months |-> round1(mm[k])]]

\* fault variant of Skipped: only the temperatures are tested
SkippedTempsOnly(tm, pm, i, j) == AnyNaN(Column(tm, i, j))

\* the cell is skipped: a missing value among its monthly values
Skipped(tm, pm, i, j) == AnyNaN(Column(tm, i, j)) \/ AnyNaN(Column(pm, i, j))

\* create_grid_cells: [raised |-> TRUE] when an index of temps_c[0..11] or
\* precips_mm[0..11] is out of range at a cell that is not skipped, otherwise
\* the list of the cells
create_grid_cells(la, lo, tm, pm, resolution) ==
    LET order == GridOrder(Len(la), Len(lo))
        Kept(ij) == ~Skipped(tm, pm, ij[1], ij[2])
        kept == SelectSeq(order, Kept)
        Cell(ij) == CellProps(la[ij[1]], lo[ij[2]], Column(tm, ij[1], ij[2]),
                              Column(pm, ij[1], ij[2]), resolution)
    IN  IF kept # << >> /\ (Len(tm) < Months \/ Len(pm) < Months)
        THEN [raised |-> TRUE, cells |-> << >>]
        ELSE [raised |-> FALSE,
              cells |-> [n \in 1..Len(kept) |-> Cell(kept[n])]]

----------------------------------------------------------------------------
(* generate_sample_data: the cells of the synthetic grid.  The monthly     *)
(* fields of the synthetic records come from a cosine and from             *)
(* np.random.uniform and are not part of the records modelled here.        *)

SampleCells ==
    LET order == GridOrder(SampleLatCount, SampleLonCount)
        lat(n) == SampleLatFirst + (order[n][1] - 1) * SampleStep
        lon(n) == SampleLonFirst + (order[n][2] - 1) * SampleStep
    IN  [n \in 1..Len(order) |->
            [geometry |-> box(lon(n) - SampleHalf, lat(n) - SampleHalf,
                              lon(n) + SampleHalf, lat(n) + SampleHalf),
             lat |-> lat(n),
             lon |-> lon(n)]]

----------------------------------------------------------------------------
(* The command line and the environment *)

Resolutions == {DefaultResolution, 5000}
Quantizations == {DefaultQuantization, 100000}

\* what argparse can hand to main
ArgSets ==
    [sample : BOOLEAN,
     temp : {None, "temp.nc"},
     precip : {None, "precip.nc"},
     output : {"out.topojson"},
     resolution : Resolutions,
     quantization : Quantizations]

\* the disk before the run: whether the two input paths exist, and the
\* output path (absent, or an artifact of an earlier run)
DiskStates ==
    [temp : BOOLEAN, precip : BOOLEAN, output : {"absent", "old"}]

NoDataset == [quantity |-> "none"]

TempVarLists == {<< >>, <<"temp">>, <<"temp", "t2m">>}
PrecipVarLists == {<< >>, <<"precip">>, <<"precip", "tp">>}
CoordSets == {{"latitude", "longitude"}, {"lat", "lon"},
              {"latitude", "lon"}, {"y", "x"}}

\* the samples that are missing in a file: none, or every sample of
\* calendar month HoleMonth at grid point (1, 1)
HoleSets(time) ==
    {{}, {<<t, 1, 1>> : t \in {u \in DOMAIN time : time[u] = HoleMonth}}}

\* the temperature files xr.open_dataset can return
TempDatasets ==
    UNION { { [quantity |-> "kelvin", data_vars |-> dv, coords |-> c,
               nlat |-> a, nlon |-> b, years |-> y,
               time |-> TimeAxis(y, g), nan |-> h, seed |-> 1]
              : h \in HoleSets(TimeAxis(y, g)) }
            : dv \in TempVarLists, c \in CoordSets, a \in 1..MaxLat,
              b \in 1..MaxLon, y \in 1..MaxYears, g \in {0, GapMonth} }

\* the precipitation files, on the grid and over the years of the
\* temperature file
PrecipDatasets(tds) ==
    { [quantity |-> "metres", data_vars |-> dv, coords |-> tds.coords,
       nlat |-> tds.nlat, nlon |-> tds.nlon, years |-> tds.years,
       time |-> TimeAxis(tds.years, 0), nan |-> h, seed |-> 1]
      : dv \in PrecipVarLists, h \in HoleSets(TimeAxis(tds.years, 0)) }

Init ==
    /\ args \in ArgSets
    /\ disk \in DiskStates
    /\ pc = "main"
    /\ exitCode = 0
    /\ stdout = << >>
    /\ stderr = << >>
    /\ trace = << >>
    /\ temp_ds = NoDataset
    /\ precip_ds = NoDataset
    /\ temp_var = ""
    /\ precip_var = ""
    /\ temp_monthly = << >>
    /\ precip_monthly = << >>
    /\ lat_name = ""
    /\ lon_name = ""
    /\ lats = << >>
    /\ lons = << >>
    /\ gdf = << >>
    /\ topoCalls = << >>

----------------------------------------------------------------------------
(* How a step ends *)

\* fault variant of ExitWithMessage: sys.exit(0)
ExitWithMessageCodeZero(msg) ==
    /\ stdout' = Append(stdout, msg)
    /\ exitCode' = 0
    /\ pc' = "exited"
    /\ UNCHANGED stderr

\* sys.exit(1) after print(msg): the message goes to the standard output
ExitWithMessage(msg) ==
    /\ stdout' = Append(stdout, msg)
    /\ exitCode' = 1
    /\ pc' = "exited"
    /\ UNCHANGED stderr

\* fault variant of Uncaught: the exception is caught, logged and dropped,
\* and the process ends with code 0
UncaughtExitZero(out, exc) ==
    /\ stdout' = stdout \o out
    /\ stderr' = Append(stderr, <<"Traceback", exc>>)
    /\ exitCode' = 0
    /\ pc' = "exited"

\* an exception nothing catches: the interpreter writes the traceback to the
\* error stream and exits with code 1; out is what the step printed before
Uncaught(out, exc) ==
    /\ stdout' = stdout \o out
    /\ stderr' = Append(stderr, <<"Traceback", exc>>)
    /\ exitCode' = 1
    /\ pc' = "exited"

\* the step printed out and control moves on to next
Goto(out, next) ==
    /\ stdout' = stdout \o out
    /\ pc' = next
    /\ UNCHANGED <<stderr, exitCode>>

data == <<temp_ds, precip_ds, temp_var, precip_var, temp_monthly,
          precip_monthly, lat_name, lon_name, lats, lons, gdf>>

----------------------------------------------------------------------------
(* main, one action per statement *)

\* lines 303-305: if args.sample
Main ==
    /\ pc = "main"
    /\ pc' = IF args.sample THEN "generate_sample" ELSE "check_required"
    /\ UNCHANGED <<args, disk, exitCode, stdout, stderr, trace, data, topoCalls>>

\* generate_sample_data up to its call of the serializer
GenerateSample ==
    /\ pc = "generate_sample"
    /\ gdf' = SampleCells
    /\ trace' = Append(trace, "generate_sample")
    /\ Goto(<<"Generating sample climate data...", "Generated sample cells">>,
            "convert")
    /\ UNCHANGED <<args, disk, temp_ds, precip_ds, temp_var, precip_var,
                   temp_monthly, precip_monthly, lat_name, lon_name, lats,
                   lons, topoCalls>>

\* lines 307-309
CheckRequired ==
    /\ pc = "check_required"
    /\ IF args.temp = None \/ args.precip = None
       THEN ExitWithMessage("Error: --temp and --precip required unless using --sample")
       ELSE Goto(<< >>, "check_temp")
    /\ UNCHANGED <<args, disk, trace, data, topoCalls>>

\* lines 311-313
CheckTempExists ==
    /\ pc = "check_temp"
    /\ trace' = Append(trace, "exists_temp")
    /\ IF ~disk.temp
       THEN ExitWithMessage("Error: Temperature file not found")
       ELSE Goto(<< >>, "check_precip")
    /\ UNCHANGED <<args, disk, data, topoCalls>>

\* lines 315-317
CheckPrecipExists ==
    /\ pc = "check_precip"
    /\ trace' = Append(trace, "exists_precip")
    /\ IF ~disk.precip
       THEN ExitWithMessage("Error: Precipitation file not found")
       ELSE Goto(<< >>, "load_temp")
    /\ UNCHANGED <<args, disk, data, topoCalls>>

\* load_era5_data, lines 46-47: the file is a dataset or cannot be parsed
LoadTemp ==
    /\ pc = "load_temp"
    /\ trace' = Append(trace, "load_temp")
    /\ \E parsed \in BOOLEAN :
          IF parsed
          THEN /\ \E ds \in TempDatasets : temp_ds' = ds
               /\ Goto(<<"Loading temperature data">>, "load_precip")
          ELSE /\ temp_ds' = temp_ds
               /\ Uncaught(<<"Loading temperature data">>, "open_dataset")
    /\ UNCHANGED <<args, disk, precip_ds, temp_var, precip_var, temp_monthly,
                   precip_monthly, lat_name, lon_name, lats, lons, gdf,
                   topoCalls>>

\* load_era5_data, lines 49-52
LoadPrecip ==
    /\ pc = "load_precip"
    /\ trace' = Append(trace, "load_precip")
    /\ \E parsed \in BOOLEAN :
          IF parsed
          THEN /\ \E ds \in PrecipDatasets(temp_ds) : precip_ds' = ds
               /\ Goto(<<"Loading precipitation data">>, "temp_var")
          ELSE /\ precip_ds' = precip_ds
               /\ Uncaught(<<"Loading precipitation data">>, "open_dataset")
    /\ UNCHANGED <<args, disk, temp_ds, temp_var, precip_var, temp_monthly,
                   precip_monthly, lat_name, lon_name, lats, lons, gdf,
                   topoCalls>>

\* fault variant of ResolveVar: always the first data variable
ResolveVarFirst(ds, canonical) ==
    IF ds.data_vars = << >> THEN "" ELSE ds.data_vars[1]

\* canonical if canonical in ds else list(ds.data_vars)[0]; "" stands for
\* the IndexError of [0] on an empty list
ResolveVar(ds, canonical) ==
    IF Contains(ds, canonical) THEN canonical
    ELSE IF ds.data_vars = << >> THEN ""
    ELSE ds.data_vars[1]

\* line 324
ResolveTempVar ==
    /\ pc = "temp_var"
    /\ LET name == ResolveVar(temp_ds, "t2m")
       IN  IF name = ""
           THEN /\ Uncaught(<< >>, "IndexError")
                /\ temp_var' = temp_var
           ELSE /\ Goto(<< >>, "precip_var")
                /\ temp_var' = name
    /\ UNCHANGED <<args, disk, trace, temp_ds, precip_ds, precip_var,
                   temp_monthly, precip_monthly, lat_name, lon_name, lats,
                   lons, gdf, topoCalls>>

\* line 325
ResolvePrecipVar ==
    /\ pc = "precip_var"
    /\ LET name == ResolveVar(precip_ds, "tp")
       IN  IF name = ""
           THEN /\ Uncaught(<< >>, "IndexError")
                /\ precip_var' = precip_var
           ELSE /\ Goto(<< >>, "reduce_temp")
                /\ precip_var' = name
    /\ UNCHANGED <<args, disk, trace, temp_ds, precip_ds, temp_var,
                   temp_monthly, precip_monthly, lat_name, lon_name, lats,
                   lons, gdf, topoCalls>>

\* line 327
ReduceTemp ==
    /\ pc = "reduce_temp"
    /\ trace' = Append(trace, "reduce_temp")
    /\ temp_monthly' = extract_monthly_values(temp_ds, temp_var)
    /\ Goto(<< >>, "reduce_precip")
    /\ UNCHANGED <<args, disk, temp_ds, precip_ds, temp_var, precip_var,
                   precip_monthly, lat_name, lon_name, lats, lons, gdf,
                   topoCalls>>

\* line 328
ReducePrecip ==
    /\ pc = "reduce_precip"
    /\ trace' = Append(trace, "reduce_precip")
    /\ precip_monthly' = extract_monthly_values(precip_ds, precip_var)
    /\ Goto(<< >>, "coordinates")
    /\ UNCHANGED <<args, disk, temp_ds, precip_ds, temp_var, precip_var,
                   temp_monthly, lat_name, lon_name, lats, lons, gdf,
                   topoCalls>>

\* lines 331-332: canonical if canonical in temp_ds.coords else short
ResolveCoord(ds, canonical, short) ==
    IF canonical \in ds.coords THEN canonical ELSE short

\* lines 331-335; temp_ds.coords[name] raises KeyError for an absent name
GetCoordinates ==
    /\ pc = "coordinates"
    /\ lat_name' = ResolveCoord(temp_ds, "latitude", "lat")
    /\ lon_name' = ResolveCoord(temp_ds, "longitude", "lon")
    /\ IF lat_name' \in temp_ds.coords /\ lon_name' \in temp_ds.coords
       THEN /\ lats' = AxisValues(temp_ds.nlat)
            /\ lons' = AxisValues(temp_ds.nlon)
            /\ Goto(<< >>, "build")
       ELSE /\ UNCHANGED <<lats, lons>>
            /\ Uncaught(<< >>, "KeyError")
    /\ UNCHANGED <<args, disk, trace, temp_ds, precip_ds, temp_var,
                   precip_var, temp_monthly, precip_monthly, gdf, topoCalls>>

\* fault variant of ResolutionPassed: --resolution is not passed on and
\* the default of create_grid_cells applies
ResolutionPassedDefault == DefaultResolution

\* the resolution main passes to create_grid_cells, line 338
ResolutionPassed == args.resolution

\* line 338
BuildCells ==
    /\ pc = "build"
    /\ trace' = Append(trace, "build")
    /\ LET r == create_grid_cells(lats, lons, temp_monthly, precip_monthly,
                                  ResolutionPassed)
       IN  IF r.raised
           THEN /\ gdf' = gdf
                /\ Uncaught(<<"Creating grid cells...">>, "IndexError")
           ELSE /\ gdf' = r.cells
                /\ Goto(<<"Creating grid cells...", "Created grid cells">>,
                        "convert")
    /\ UNCHANGED <<args, disk, temp_ds, precip_ds, temp_var, precip_var,
                   temp_monthly, precip_monthly, lat_name, lon_name, lats,
                   lons, topoCalls>>

\* fault variant of QuantizationPassed: the sample generator passes
\* --quantization on
QuantizationPassedFromArgs == args.quantization

\* the quantization the caller passes: line 254 and line 341
QuantizationPassed == IF args.sample THEN SampleQuantization ELSE args.quantization

\* convert_to_topojson, lines 167-178.  The directory cannot be made (the
\* output is untouched), the file is opened and the write fails (a partial
\* file is left), or the whole artifact is written.
ConvertToTopojson ==
    /\ pc = "convert"
    /\ trace' = Append(trace, "serialize")
    /\ topoCalls' = Append(topoCalls, [cells |-> Len(gdf),
                                       output_path |-> args.output,
                                       quantization |-> QuantizationPassed])
    /\ \E outcome \in {"written", "mkdir fails", "write fails"} :
          CASE outcome = "written" ->
                 /\ disk' = [disk EXCEPT !.output = "written"]
                 /\ Goto(<<"Converting to TopoJSON", "Saved to">>, "finish")
            [] outcome = "mkdir fails" ->
                 /\ disk' = disk
                 /\ Uncaught(<<"Converting to TopoJSON">>, "OSError")
            [] outcome = "write fails" ->
                 /\ disk' = [disk EXCEPT !.output = "partial"]
                 /\ Uncaught(<<"Converting to TopoJSON">>, "OSError")
    /\ UNCHANGED <<args, data>>

\* line 343 and the end of main; line 305 in sample mode
Finish ==
    /\ pc = "finish"
    /\ stdout' = IF args.sample THEN stdout ELSE Append(stdout, "Done!")
    /\ exitCode' = 0
    /\ pc' = "exited"
    /\ UNCHANGED <<args, disk, stderr, trace, data, topoCalls>>

Next ==
    \/ Main
    \/ GenerateSample
    \/ CheckRequired
    \/ CheckTempExists
    \/ CheckPrecipExists
    \/ LoadTemp
    \/ LoadPrecip
    \/ ResolveTempVar
    \/ ResolvePrecipVar
    \/ ReduceTemp
    \/ ReducePrecip
    \/ GetCoordinates
    \/ BuildCells
    \/ ConvertToTopojson
    \/ Finish

Spec == Init /\ [][Next]_vars

----------------------------------------------------------------------------
(* create_grid_cells on its own: the grid and the two (12, lat, lon)       *)
(* monthly aggregates are drawn, then the builder runs.                    *)

\* the subsets of S with at most n elements
RECURSIVE SubsetsUpTo(_, _)
SubsetsUpTo(S, n) ==
    IF n = 0 THEN {{}}
    ELSE LET prev == SubsetsUpTo(S, n - 1)
         IN  prev \cup {q \cup {x} : q \in prev, x \in S}

\* where a drawn aggregate may miss a value: months HoleMonth and 12 of
\* every grid point
NaNSites(a, b) == {HoleMonth, Months} \X (1..a) \X (1..b)

\* a monthly aggregate: seed 0 is 288.15 K / 0.01 m everywhere, seed 1
\* varies with the month and the grid point and crosses 0 degrees Celsius
AggregateValue(quantity, seed, k, i, j) ==
    IF quantity = "kelvin"
    THEN IF seed = 0 THEN 28815000
         ELSE 25000000 + k * 317311 + i * 1000003 + j * 250007
    ELSE IF seed = 0 THEN 1000
         ELSE 137 + k * 213 + i * 1021 + j * 57

Aggregate(quantity, seed, a, b, missing) ==
    [k \in 1..Months |->
        [i \in 1..a |->
            [j \in 1..b |->
                IF <<k, i, j>> \in missing THEN NaN
                ELSE AggregateValue(quantity, seed, k, i, j)]]]

InitCells ==
    /\ args \in [sample : {FALSE}, temp : {"temp.nc"}, precip : {"precip.nc"},
                 output : {"out.topojson"}, resolution : Resolutions,
                 quantization : {DefaultQuantization}]
    /\ disk = [temp |-> TRUE, precip |-> TRUE, output |-> "absent"]
    /\ pc = "build"
    /\ exitCode = 0
    /\ stdout = << >>
    /\ stderr = << >>
    /\ trace = << >>
    /\ temp_ds = NoDataset
    /\ precip_ds = NoDataset
    /\ temp_var = "t2m"
    /\ precip_var = "tp"
    /\ lat_name = "latitude"
    /\ lon_name = "longitude"
    /\ \E a \in 1..MaxLat, b \in 1..MaxLon, seed \in {0, 1} :
          /\ lats = AxisValues(a)
          /\ lons = AxisValues(b)
          /\ \E tn \in SubsetsUpTo(NaNSites(a, b), MaxNaN),
                pn \in SubsetsUpTo(NaNSites(a, b), 1) :
                /\ temp_monthly = Aggregate("kelvin", seed, a, b, tn)
                /\ precip_monthly = Aggregate("metres", seed, a, b, pn)
    /\ gdf = << >>
    /\ topoCalls = << >>

NextCells == BuildCells

SpecCells == InitCells /\ [][NextCells]_vars

----------------------------------------------------------------------------
(* Vocabulary of the properties *)

Range(seq) == {seq[n] : n \in DOMAIN seq}

\* create_grid_cells has returned its list
Built == pc = "convert" /\ ~args.sample

\* the process has ended
Exited == pc = "exited"

\* the records emitted for grid point (i, j)
RecordsAt(i, j) ==
    {n \in DOMAIN gdf : gdf[n].lat = lats[i] /\ gdf[n].lon = lons[j]}

\* all 24 monthly values of grid point (i, j) are present
Complete(i, j) ==
    \A k \in 1..Months :
        /\ temp_monthly[k][i][j] # NaN
        /\ precip_monthly[k][i][j] # NaN

GridPoints == (1..Len(lats)) \X (1..Len(lons))

\* v, in tenths, is x, in units of 10^-5, rounded to one decimal place
RoundedToTenth(v, x) == 2 * Abs(v * TenthUnit - x) <= TenthUnit

\* the output path holds what it held before the run
OutputUntouched == disk.output \in {"absent", "old"}

ErrorMessages ==
    {"Error: --temp and --precip required unless using --sample",
     "Error: Temperature file not found",
     "Error: Precipitation file not found"}

PipelineOrder ==
    <<"load_temp", "load_precip", "reduce_temp", "reduce_precip", "build",
      "serialize">>

IsPipelineStep(step) == step \in Range(PipelineOrder)

IsPrefix(s, t) == Len(s) <= Len(t) /\ \A n \in DOMAIN s : s[n] = t[n]

----------------------------------------------------------------------------
(* Properties *)

\* C1: create_grid_cells emits exactly one record for every grid point whose
\* 12 temperature and 12 precipitation values are all present and none for
\* a point with a missing value; the number of records is lat_count *
\* lon_count minus the number of points with a missing value, and at most
\* lat_count * lon_count.
C1_OneRecordPerCompletePoint ==
    (Built /\ Len(temp_monthly) = Months /\ Len(precip_monthly) = Months) =>
        /\ \A ij \in GridPoints :
              Cardinality(RecordsAt(ij[1], ij[2])) =
                  IF Complete(ij[1], ij[2]) THEN 1 ELSE 0
        /\ Len(gdf) = Len(lats) * Len(lons)
                      - Cardinality({ij \in GridPoints : ~Complete(ij[1], ij[2])})
        /\ Len(gdf) <= Len(lats) * Len(lons)

\* C1 witness: the builder has run on a grid with a point that misses only a
\* precipitation value, a point that misses a temperature value and a
\* complete point
C1_Witness ==
    /\ Built
    /\ \E ij \in GridPoints :
          /\ \A k \in 1..Months : temp_monthly[k][ij[1]][ij[2]] # NaN
          /\ \E k \in 1..Months : precip_monthly[k][ij[1]][ij[2]] = NaN
    /\ \E ij \in GridPoints :
          \E k \in 1..Months : temp_monthly[k][ij[1]][ij[2]] = NaN
    /\ \E ij \in GridPoints : Complete(ij[1], ij[2])
    /\ Len(gdf) >= 1
    /\ Len(gdf) < Len(lats) * Len(lons)

\* C2: in the record of grid point (i, j), field t<k> is temp_monthly[k-1, i,
\* j] - 273.15 rounded to one decimal place and field p<k> is
\* precip_monthly[k-1, i, j] * 1000 rounded to one decimal place, for every
\* k in 1..12.
C2_FieldsAreConvertedMonthlyValues ==
    Built =>
        \A ij \in GridPoints : \A n \in RecordsAt(ij[1], ij[2]) :
            \A k \in 1..Months :
                /\ RoundedToTenth(gdf[n].t[k],
                                  temp_monthly[k][ij[1]][ij[2]] - 27315000)
                /\ RoundedToTenth(gdf[n].p[k],
                                  precip_monthly[k][ij[1]][ij[2]] * 1000)

\* C2 witness: a record whose temperatures are not all alike, with one below
\* zero, and with a value that rounding changes
C2_Witness ==
    /\ Built
    /\ \E n \in DOMAIN gdf :
          /\ \E k \in 1..Months : gdf[n].t[k] < 0
          /\ \E k \in 1..Months : gdf[n].t[k] > 0
          /\ gdf[n].t[1] # gdf[n].t[2]
          /\ gdf[n].p[1] # gdf[n].p[2]
          /\ gdf[n].p[1] # gdf[n].t[1]
          /\ \E ij \in GridPoints :
                /\ n \in RecordsAt(ij[1], ij[2])
                /\ gdf[n].t[1] * TenthUnit
                       # temp_monthly[1][ij[1]][ij[2]] - KelvinOffset

\* C4: every polygon of create_grid_cells for a grid point with centre (lat,
\* lon) and resolution r is the axis-aligned rectangle with bounding box
\* [lon - r/2, lat - r/2, lon + r/2, lat + r/2]; for lats {0, 5}, lons {0, 5}
\* and r = 5 the four boxes are [-2.5,-2.5,2.5,2.5], [-2.5,2.5,2.5,7.5],
\* [2.5,-2.5,7.5,2.5] and [2.5,2.5,7.5,7.5].
C4_BoundingBoxCentredOnPoint ==
    Built =>
        /\ \A n \in DOMAIN gdf :
              LET b == Bounds(gdf[n].geometry)
                  r == args.resolution
              IN  /\ 2 * b[1] = 2 * gdf[n].lon - r
                  /\ 2 * b[2] = 2 * gdf[n].lat - r
                  /\ 2 * b[3] = 2 * gdf[n].lon + r
                  /\ 2 * b[4] = 2 * gdf[n].lat + r
                  /\ b[3] - b[1] = r
                  /\ b[4] - b[2] = r
                  /\ Len(gdf[n].geometry) = 4
                  /\ Range(gdf[n].geometry) =
                         {<<b[1], b[2]>>, <<b[3], b[2]>>, <<b[3], b[4]>>,
                          <<b[1], b[4]>>}
        /\ (/\ lats = <<0, 5000>>
            /\ lons = <<0, 5000>>
            /\ args.resolution = 5000
            /\ Len(gdf) = 4) =>
               {Bounds(gdf[n].geometry) : n \in DOMAIN gdf} =
                   {<<-2500, -2500, 2500, 2500>>, <<-2500, 2500, 2500, 7500>>,
                    <<2500, -2500, 7500, 2500>>, <<2500, 2500, 7500, 7500>>}

\* C4 witness: the four cells of the 2 x 2 grid at resolution 5
C4_Witness ==
    /\ Built
    /\ lats = <<0, 5000>>
    /\ lons = <<0, 5000>>
    /\ args.resolution = 5000
    /\ Len(gdf) = 4


\* monthly has one entry per calendar month 1..12, entry k the mean of the
\* present samples of calendar month k of variable var of ds, missing where
\* month k has no present sample
IsMonthlyMeanOf(monthly, ds, var) ==
    /\ Len(monthly) = Months
    /\ \A k \in 1..Months, i \in 1..ds.nlat, j \in 1..ds.nlon :
          LET S == {t \in DOMAIN ds.time :
                       ds.time[t] = k /\ StoredValue(ds, var, t, i, j) # NaN}
              total == SumOver([t \in S |-> StoredValue(ds, var, t, i, j)], S)
          IN  IF S = {} THEN monthly[k][i][j] = NaN
              ELSE /\ monthly[k][i][j] # NaN
                   /\ 2 * Abs(Cardinality(S) * monthly[k][i][j] - total)
                          <= Cardinality(S)

\* C3: for every time series, also one in which a calendar month has no
\* sample at all, extract_monthly_values returns exactly 12 entries, entry
\* k-1 the mean of the samples of calendar month k and missing where month k
\* has no observation; so the builder returns, and drops a point with an
\* unobserved month instead of emitting it with shifted months.
C3_TwelveCalendarMonths ==
    /\ temp_monthly # << >> => IsMonthlyMeanOf(temp_monthly, temp_ds, temp_var)
    /\ precip_monthly # << >> =>
           IsMonthlyMeanOf(precip_monthly, precip_ds, precip_var)
    /\ (trace # << >> /\ trace[Len(trace)] = "build") => Built
    /\ (Built /\ temp_ds # NoDataset) =>
           \A ij \in GridPoints :
               (\E k \in 1..Months :
                    k \notin Range(temp_ds.time) \/ k \notin Range(precip_ds.time))
                   => RecordsAt(ij[1], ij[2]) = {}

\* C5 as stated: --resolution r is the half-width, each polygon of a
\* non-sample run extends r degrees from its centre in each direction.
C5_ResolutionIsHalfWidth ==
    Built =>
        \A n \in DOMAIN gdf :
            Bounds(gdf[n].geometry) =
                <<gdf[n].lon - args.resolution, gdf[n].lat - args.resolution,
                  gdf[n].lon + args.resolution, gdf[n].lat + args.resolution>>

\* C5 amended: --resolution r is the full width and height of a cell: each
\* polygon of a non-sample run extends r/2 degrees from its centre in each
\* of the four directions.
C5_ResolutionIsFullWidth ==
    Built =>
        \A n \in DOMAIN gdf : \A v \in Range(gdf[n].geometry) :
            /\ 2 * Abs(v[1] - gdf[n].lon) = args.resolution
            /\ 2 * Abs(v[2] - gdf[n].lat) = args.resolution

\* C5 witness: a non-sample run with a resolution other than the default
\* has built a cell
C5_Witness ==
    /\ Built
    /\ "build" \in Range(trace)
    /\ args.resolution # DefaultResolution
    /\ Len(gdf) >= 1

\* path `which` was supplied and does not exist
Missing(which) == args[which] # None /\ ~disk[which]

\* the run cannot pass the checks of lines 307-317
InputsRefused ==
    /\ ~args.sample
    /\ \/ args.temp = None
       \/ args.precip = None
       \/ Missing("temp")
       \/ Missing("precip")

Reported(msg) == msg \in Range(stdout) \/ <<"Message", msg>> \in Range(stderr)

\* no load was attempted and the output path is as it was
RefusedBeforeLoading ==
    /\ pc \in {"main", "check_required", "check_temp", "check_precip", "exited"}
    /\ Range(trace) \cap {"load_temp", "load_precip"} = {}
    /\ temp_ds = NoDataset
    /\ precip_ds = NoDataset
    /\ OutputUntouched
    /\ Exited => exitCode # 0

\* C6 as stated: a non-sample run without --temp or --precip, or with a
\* supplied path that does not exist, exits non-zero before any load, leaves
\* the output untouched, and reports every missing file, also when both are
\* missing.
C6_EveryMissingFileReported ==
    InputsRefused =>
        /\ RefusedBeforeLoading
        /\ (Exited /\ args.temp # None /\ args.precip # None) =>
              /\ Missing("temp") => Reported("Error: Temperature file not found")
              /\ Missing("precip") =>
                     Reported("Error: Precipitation file not found")

\* C6 amended: such a run exits non-zero before any load and leaves the
\* output untouched, and prints exactly one diagnostic: the missing-argument
\* message, else the temperature file if it is missing, else the
\* precipitation file; when both files are missing only the temperature file
\* is reported.
C6_FirstMissingFileReported ==
    InputsRefused =>
        /\ RefusedBeforeLoading
        /\ Exited =>
              /\ Len(stdout) = 1
              /\ stderr = << >>
              /\ stdout[1] =
                   IF args.temp = None \/ args.precip = None
                   THEN "Error: --temp and --precip required unless using --sample"
                   ELSE IF Missing("temp")
                   THEN "Error: Temperature file not found"
                   ELSE "Error: Precipitation file not found"

\* C6 witness: both supplied paths are missing and the run has ended
C6_Witness ==
    /\ ~args.sample
    /\ Missing("temp")
    /\ Missing("precip")
    /\ disk.output = "old"
    /\ Exited

\* the run ended otherwise than by returning from main
Failed == Exited /\ (stdout = << >> \/ stdout[Len(stdout)] \notin {"Done!", "Saved to"})

\* C7: a run that ends because required paths are missing, an input path
\* does not exist, loading fails or serialization fails exits with code 1
\* and its diagnostic is on the error stream; the standard output carries
\* progress messages only.
C7_DiagnosticsOnErrorStream ==
    Failed =>
        /\ exitCode = 1
        /\ stderr # << >>
        /\ Range(stdout) \cap ErrorMessages = {}

\* C8: with --sample the run does not depend on --temp, --precip and
\* --quantization: no existence check, no load, no exit through the
\* missing-argument or file-not-found paths, and the serializer is invoked
\* exactly once, with quantization 10,000 and the --output path.
C8_SampleIgnoresInputs ==
    args.sample =>
        /\ Range(trace) \cap
             {"exists_temp", "exists_precip", "load_temp", "load_precip"} = {}
        /\ temp_ds = NoDataset
        /\ precip_ds = NoDataset
        /\ Range(stdout) \cap ErrorMessages = {}
        /\ Len(topoCalls) <= 1
        /\ \A n \in DOMAIN topoCalls :
              /\ topoCalls[n].quantization = 10000
              /\ topoCalls[n].output_path = args.output
        /\ Exited => Len(topoCalls) = 1

\* C8 witness: a finished sample run given a temperature path that does not
\* exist, no precipitation path and a quantization of its own
C8_Witness ==
    /\ args.sample
    /\ Exited
    /\ exitCode = 0
    /\ Missing("temp")
    /\ args.precip = None
    /\ args.quantization # 10000
    /\ Len(topoCalls) = 1

\* C9: the temperature variable is "t2m" when the dataset has it, else its
\* first data variable; likewise "tp" for precipitation; the axes are
\* "latitude"/"longitude" when among the coordinates, else "lat"/"lon".  The
\* resolved variable is a data variable of its dataset, and a dataset without
\* data variables ends the run in failure with no output written.
C9_NameResolution ==
    /\ temp_var # "" =>
          /\ temp_var \in Range(temp_ds.data_vars)
          /\ temp_var = IF "t2m" \in Range(temp_ds.data_vars) THEN "t2m"
                        ELSE temp_ds.data_vars[1]
    /\ precip_var # "" =>
          /\ precip_var \in Range(precip_ds.data_vars)
          /\ precip_var = IF "tp" \in Range(precip_ds.data_vars) THEN "tp"
                          ELSE precip_ds.data_vars[1]
    /\ lat_name # "" =>
          lat_name = IF "latitude" \in temp_ds.coords THEN "latitude" ELSE "lat"
    /\ lon_name # "" =>
          lon_name = IF "longitude" \in temp_ds.coords THEN "longitude" ELSE "lon"
    /\ (temp_ds # NoDataset /\ temp_ds.data_vars = << >>) =>
          /\ pc \in {"load_precip", "temp_var", "exited"}
          /\ OutputUntouched
          /\ Exited => exitCode = 1 /\ stderr # << >>
    /\ (precip_ds # NoDataset /\ precip_ds.data_vars = << >>) =>
          /\ pc \in {"temp_var", "precip_var", "exited"}
          /\ OutputUntouched
          /\ Exited => exitCode = 1 /\ stderr # << >>

\* C9 witness: "t2m" taken although it is not the first data variable, the
\* first data variable taken for precipitation, one canonical and one short
\* axis name
C9_Witness ==
    /\ pc = "build"
    /\ temp_ds.data_vars = <<"temp", "t2m">>
    /\ temp_var = "t2m"
    /\ precip_ds.data_vars = <<"precip">>
    /\ precip_var = "precip"
    /\ lat_name = "latitude"
    /\ lon_name = "lon"

\* C10: a non-sample run takes the steps load temperature, load
\* precipitation, reduce temperature, reduce precipitation, build cells,
\* serialize in this order, each at most once; the output is written only
\* after the cells have been built; after a failure no step runs; and the
\* process exits with code 0 only with the artifact written completely.
C10_SequentialAndTerminal ==
    ~args.sample =>
        /\ IsPrefix(SelectSeq(trace, IsPipelineStep), PipelineOrder)
        /\ ~OutputUntouched =>
              /\ "build" \in Range(trace)
              /\ trace[Len(trace)] = "serialize"
              /\ Len(topoCalls) = 1
        /\ Exited => ~ENABLED Next
        /\ (Exited /\ exitCode = 0) =>
              /\ disk.output = "written"
              /\ SelectSeq(trace, IsPipelineStep) = PipelineOrder
        /\ (Exited /\ disk.output # "written") => exitCode # 0

\* C10 witness: the load of the precipitation file failed and the run ended
\* there
C10_Witness ==
    /\ ~args.sample
    /\ Exited
    /\ exitCode = 1
    /\ SelectSeq(trace, IsPipelineStep) = <<"load_temp", "load_precip">>
    /\ OutputUntouched

====
